---- MODULE Spec2Model ----
(***************************************************************************)
(* Model of simpleperf/generate_art_jni_method_table.py.                   *)
(*                                                                         *)
(* Strings are sequences of characters.  Names are spelled character by    *)
(* character; a literal of the source that is never taken apart (a header  *)
(* line, a macro name part, the pieces of the format string) is one        *)
(* element.                                                                *)
(*                                                                         *)
(* The text of a scanned file is represented by what the regular           *)
(* expressions of ArtJniMethodParser can see in it:                        *)
(*   markers : the class names captured by the successive occurrences of   *)
(*             REGISTER_NATIVE_METHODS("...") in the text,                 *)
(*   decls   : the macro invocations IDENT(cls, method[, sig, ident]) in   *)
(*             the order of the text, each starting after white space,     *)
(*   funcs   : the function definitions "[static] type name(" of the text. *)
(* Every pattern is searched over the whole text on its own, so the code   *)
(* never observes the relative position of items of different kinds.       *)
(***************************************************************************)
EXTENDS Integers, Sequences, FiniteSets, TLC

VARIABLES dir, stored, pc, check_only, next_file, methods, text,
          exit_code, fault, printed, stored_at_start, generated

vars == <<dir, stored, pc, check_only, next_file, methods, text,
          exit_code, fault, printed, stored_at_start, generated>>

(* ------------------------------ bounds --------------------------------- *)
MaxFiles == 2
MaxMarkers == 2
MaxDecls == 2

(* --------------------------- generic helpers --------------------------- *)
SeqsUpTo(S, n) == UNION {[1..k -> S] : k \in 0..n}

RECURSIVE Flatten(_)
Flatten(ss) == IF ss = <<>> THEN <<>> ELSE Head(ss) \o Flatten(Tail(ss))

(* ------------------------- the parser's patterns ----------------------- *)
\* the list of line 55
MacroNames == << <<"NATIVE_METHOD">>, <<"FAST_", "NATIVE_METHOD">>,
                 <<"CRITICAL_", "NATIVE_METHOD">> >>

\* self.method_patterns: for each name, name and name + 'AUTOSIG'
method_patterns ==
    Flatten([i \in 1..Len(MacroNames) |->
                << MacroNames[i], MacroNames[i] \o <<"AUTOSIG">> >>])

\* self.overload_method_patterns: 'OVERLOADED_' + name
overload_method_patterns ==
    [i \in 1..Len(MacroNames) |-> <<"OVERLOADED_">> \o MacroNames[i]]

IsSuffix(p, s) ==
    /\ Len(p) <= Len(s)
    /\ SubSeq(s, Len(s) - Len(p) + 1, Len(s)) = p

\* r'\s+' + name + r'\(': the name must end the invoked identifier (it is
\* followed by the parenthesis) and must start right after white space, which
\* in the text stands only before the identifier as a whole.
Matches(p, d) == IsSuffix(p, d.macro) /\ Len(d.macro) = Len(p)

\* p.finditer(text): the matches of one pattern, in the order of the text
FindIter(p, decls) == SelectSeq(decls, LAMBDA d : Matches(p, d))

(* --------------------------- ArtJniMethod ------------------------------ *)
ArtJniMethod(cls, j, n) ==
    [class_name |-> cls, java_method_name |-> j, native_method_name |-> n]

(* ------------------------- _get_class_name ----------------------------- *)
\* str.replace('/', '.')
NoReplace(s) == s

Replace(s) == [i \in 1..Len(s) |-> IF s[i] = "/" THEN "." ELSE s[i]]

get_class_name_first(t) ==
    IF t.markers = <<>>
    THEN [found |-> FALSE, fault |-> FALSE, name |-> <<>>]
    ELSE [found |-> TRUE, fault |-> FALSE, name |-> Replace(t.markers[1])]

\* Optional[str]: found = FALSE is None; fault is the failed assertion of
\* line 80 (a second occurrence after the end of the first match).
get_class_name(t) ==
    IF t.markers = <<>>
    THEN [found |-> FALSE, fault |-> FALSE, name |-> <<>>]
    ELSE [found |-> TRUE,
          fault |-> Len(t.markers) > 1,
          name  |-> Replace(t.markers[1])]

(* --------------------------- _get_methods ------------------------------ *)
\* str.rfind('.'): the highest 0-based index of a dot, -1 if there is none
RFind(s) ==
    LET dots == {i \in 1..Len(s) : s[i] = "."}
    IN  IF dots = {} THEN -1
        ELSE (CHOOSE i \in dots : \A j \in dots : j <= i) - 1

\* class_name[class_name.rfind('.') + 1:]
ClassBaseName(class_name) ==
    SubSeq(class_name, RFind(class_name) + 2, Len(class_name))

\* the inner loop of lines 87-92 over the matches of one pattern
PlainRecords(ms, class_name) ==
    [i \in 1..Len(ms) |->
        ArtJniMethod(class_name, ms[i].method,
                     ClassBaseName(class_name) \o <<"_">> \o ms[i].method)]

OverloadRecordsByMethod(ms, class_name) == PlainRecords(ms, class_name)

\* the inner loop of lines 94-99
OverloadRecords(ms, class_name) ==
    [i \in 1..Len(ms) |->
        ArtJniMethod(class_name, ms[i].method,
                     ClassBaseName(class_name) \o <<"_">> \o ms[i].ident)]

NoClassCheck(ms, class_name) == FALSE

\* the assertions of lines 88 and 95
ClassMismatch(ms, class_name) ==
    \E i \in 1..Len(ms) : ClassBaseName(class_name) # ms[i].cls

RECURSIVE PlainLoop(_, _, _)
PlainLoop(k, t, class_name) ==
    IF k > Len(method_patterns) THEN [fault |-> FALSE, methods |-> <<>>]
    ELSE LET ms   == FindIter(method_patterns[k], t.decls)
             rest == PlainLoop(k + 1, t, class_name)
         IN  [fault   |-> ClassMismatch(ms, class_name) \/ rest.fault,
              methods |-> PlainRecords(ms, class_name) \o rest.methods]

RECURSIVE OverloadLoop(_, _, _)
OverloadLoop(k, t, class_name) ==
    IF k > Len(overload_method_patterns) THEN [fault |-> FALSE, methods |-> <<>>]
    ELSE LET ms   == FindIter(overload_method_patterns[k], t.decls)
             rest == OverloadLoop(k + 1, t, class_name)
         IN  [fault   |-> ClassMismatch(ms, class_name) \/ rest.fault,
              methods |-> OverloadRecords(ms, class_name) \o rest.methods]

get_methods_overload_first(t, class_name) ==
    LET plain == PlainLoop(1, t, class_name)
        over  == OverloadLoop(1, t, class_name)
    IN  [fault   |-> plain.fault \/ over.fault,
         methods |-> over.methods \o plain.methods]

\* lines 85-100: the plain patterns first, then the overloaded ones
get_methods(t, class_name) ==
    LET plain == PlainLoop(1, t, class_name)
        over  == OverloadLoop(1, t, class_name)
    IN  [fault   |-> plain.fault \/ over.fault,
         methods |-> plain.methods \o over.methods]

(* -------------------------- _check_methods ----------------------------- *)
\* static_function_pattern r'static\s+\w+\s+(\w+)\('
all_function_names(t) == {f.name : f \in t.funcs}

static_function_names(t) == {f.name : f \in {g \in t.funcs : g.static}}

\* TRUE when the assertion of line 107 fails for some method
check_methods(t, ms) ==
    \E i \in 1..Len(ms) : ms[i].native_method_name \notin static_function_names(t)

(* --------------------------- parse_methods ----------------------------- *)
parse_methods_no_guard(t) ==
    LET cn == get_class_name(t)
    IN  IF cn.fault THEN [fault |-> TRUE, methods |-> <<>>]
        ELSE LET g == get_methods(t, cn.name)
             IN  IF g.fault \/ check_methods(t, g.methods)
                 THEN [fault |-> TRUE, methods |-> <<>>]
                 ELSE [fault |-> FALSE, methods |-> g.methods]

\* lines 64-72; fault = an assertion failed, methods = the returned list
parse_methods(t) ==
    LET cn == get_class_name(t)
    IN  IF ~cn.found THEN [fault |-> FALSE, methods |-> <<>>]
        ELSE IF cn.fault THEN [fault |-> TRUE, methods |-> <<>>]
        ELSE LET g == get_methods(t, cn.name)
             IN  IF g.fault THEN [fault |-> TRUE, methods |-> <<>>]
                 ELSE IF check_methods(t, g.methods)
                      THEN [fault |-> TRUE, methods |-> <<>>]
                      ELSE [fault |-> FALSE, methods |-> g.methods]

(* ------------------------ art_jni_methods_to_str ----------------------- *)
Header1 == "// This file is generated by generate_art_jni_method_table.py."
Header2 == "// clang-format off"

\* 'ART_JNI_METHOD("%s", "%s")' % (class + '.' + java, "art::" + native)
MethodLine(m) ==
    <<"ART_JNI_METHOD(\"">> \o (m.class_name \o <<".">> \o m.java_method_name)
        \o <<"\", \"">> \o (<<"art::">> \o m.native_method_name) \o <<"\")">>

RECURSIVE Join(_)
Join(lines) ==
    IF lines = <<>> THEN <<>>
    ELSE IF Len(lines) = 1 THEN lines[1]
    ELSE lines[1] \o <<"\n">> \o Join(Tail(lines))

art_jni_methods_to_str(ms) ==
    Join(<< <<Header1>>, <<Header2>> >> \o [i \in 1..Len(ms) |-> MethodLine(ms[i])])

(* ----------------------- the stored output file ------------------------ *)
NoFile == <<"<no file>">>

read_bytes(bytes) == bytes

\* Path.read_text(): text mode with universal newlines, "\r\n" and "\r" are
\* read as "\n"
RECURSIVE read_text(_)
read_text(bytes) ==
    IF bytes = <<>> THEN <<>>
    ELSE IF bytes[1] = "\r"
         THEN IF Len(bytes) > 1 /\ bytes[2] = "\n"
              THEN <<"\n">> \o read_text(SubSeq(bytes, 3, Len(bytes)))
              ELSE <<"\n">> \o read_text(Tail(bytes))
         ELSE <<bytes[1]>> \o read_text(Tail(bytes))

write_text_newline(s) == s \o <<"\n">>

\* Path.write_text(): text mode, "\n" is written as os.linesep ("\n" on the
\* hosts the script runs on)
write_text(s) == s

(* ------------------------------ inputs --------------------------------- *)
F == <<"F">>
G == <<"G">>
b == <<"b">>
c == <<"c">>

Decl(macro, cls, method, ident) ==
    [macro |-> macro, cls |-> cls, method |-> method, ident |-> ident]

Func(static, name) == [static |-> static, name |-> name]

Text(markers, decls, funcs) ==
    [markers |-> markers, decls |-> decls, funcs |-> funcs]

\* class names as written in REGISTER_NATIVE_METHODS("..."), both of short
\* name F
ClassNames == { <<"F">>, <<"a", ".", "b", "/", "F">> }

\* the macros of jni_macros.h used in the inputs, and the spelling
\* NATIVE_METHODAUTOSIG that the second pattern of line 58 looks for
FileDecls ==
    { Decl(<<"NATIVE_METHOD">>, F, b, <<>>),
      Decl(<<"NATIVE_METHOD">>, F, c, <<>>),
      Decl(<<"FAST_", "NATIVE_METHOD">>, F, b, <<>>),
      Decl(<<"OVERLOADED_", "NATIVE_METHOD">>, F, b, c),
      Decl(<<"NATIVE_METHOD", "_AUTOSIG">>, F, b, <<>>),
      Decl(<<"NATIVE_METHOD", "AUTOSIG">>, F, c, <<>>),
      Decl(<<"NATIVE_METHOD">>, G, b, <<>>),
      Decl(<<"OVERLOADED_", "NATIVE_METHOD">>, G, b, c) }

FileFuncs ==
    { {},
      {Func(TRUE, F \o <<"_">> \o b)},
      {Func(TRUE, F \o <<"_">> \o b), Func(TRUE, F \o <<"_">> \o c)},
      {Func(FALSE, F \o <<"_">> \o b), Func(TRUE, F \o <<"_">> \o c)} }

FileTexts ==
    { Text(m, d, f) : m \in SeqsUpTo(ClassNames, MaxMarkers),
                      d \in SeqsUpTo(FileDecls, MaxDecls),
                      f \in FileFuncs }

\* the files of a directory of several files are drawn from a smaller
\* alphabet
DirMarkers == SeqsUpTo({ <<"a", "/", "F">> }, MaxMarkers)

DirDeclSeqs ==
    { <<>>,
      << Decl(<<"NATIVE_METHOD">>, F, c, <<>>) >>,
      << Decl(<<"OVERLOADED_", "NATIVE_METHOD">>, F, b, c),
         Decl(<<"FAST_", "NATIVE_METHOD">>, F, b, <<>>),
         Decl(<<"NATIVE_METHOD">>, F, c, <<>>) >> }

DirFuncs ==
    { {Func(TRUE, F \o <<"_">> \o b), Func(TRUE, F \o <<"_">> \o c)},
      {Func(TRUE, F \o <<"_">> \o b), Func(FALSE, F \o <<"_">> \o c)} }

DirTexts ==
    { Text(m, d, f) : m \in DirMarkers, d \in DirDeclSeqs, f \in DirFuncs }

\* contents of art_jni_method_table.h before the first run
StoredContents ==
    { NoFile,
      <<Header1, "\n", Header2>>,
      <<Header1, "\r", "\n", Header2>>,
      <<Header1, "\n", Header2, "\n">> }

(* ------------------------------ the run -------------------------------- *)
InitRun ==
    /\ pc = "idle"
    /\ check_only = FALSE
    /\ next_file = 1
    /\ methods = <<>>
    /\ text = <<>>
    /\ exit_code = -1
    /\ fault = FALSE
    /\ printed = FALSE
    /\ stored_at_start = stored
    /\ generated = FALSE

Init ==
    /\ dir \in SeqsUpTo(DirTexts, MaxFiles)
    /\ stored \in StoredContents
    /\ InitRun

InitFile ==
    /\ dir \in {<<t>> : t \in FileTexts}
    /\ stored \in StoredContents
    /\ InitRun

\* the script is started: get_args() and the first lines of
\* collect_art_jni_methods
Start(flag) ==
    /\ pc \in {"idle", "exited"}
    /\ pc' = "collect"
    /\ check_only' = flag
    /\ next_file' = 1
    /\ methods' = <<>>
    /\ text' = <<>>
    /\ exit_code' = -1
    /\ fault' = FALSE
    /\ printed' = FALSE
    /\ stored_at_start' = stored
    /\ UNCHANGED <<dir, stored, generated>>

\* an uncaught exception ends the interpreter with exit status 1
Abort ==
    /\ pc' = "exited"
    /\ fault' = TRUE
    /\ exit_code' = 1

\* one iteration of the loop of collect_art_jni_methods, parse_methods returns
ParseFile ==
    /\ pc = "collect"
    /\ next_file <= Len(dir)
    /\ ~parse_methods(dir[next_file]).fault
    /\ methods' = methods \o parse_methods(dir[next_file]).methods
    /\ next_file' = next_file + 1
    /\ UNCHANGED <<dir, stored, pc, check_only, text, exit_code, fault,
                   printed, stored_at_start, generated>>

\* one iteration of the loop, an assertion of parse_methods fails
ParseFault ==
    /\ pc = "collect"
    /\ next_file <= Len(dir)
    /\ parse_methods(dir[next_file]).fault
    /\ Abort
    /\ UNCHANGED <<dir, stored, check_only, next_file, methods, text,
                   printed, stored_at_start, generated>>

\* the loop is over; main renders the text (line 133)
Render ==
    /\ pc = "collect"
    /\ next_file > Len(dir)
    /\ text' = art_jni_methods_to_str(methods)
    /\ pc' = "main"
    /\ UNCHANGED <<dir, stored, check_only, next_file, methods, exit_code,
                   fault, printed, stored_at_start, generated>>

\* lines 134-138; OUTPUT_FILE.read_text() raises when there is no file
CheckOnly ==
    /\ pc = "main"
    /\ check_only
    /\ \/ /\ stored = NoFile
          /\ Abort
          /\ UNCHANGED printed
       \/ /\ stored # NoFile
          /\ text # read_text(stored)
          /\ printed' = TRUE
          /\ exit_code' = 1
          /\ pc' = "exited"
          /\ UNCHANGED fault
       \/ /\ stored # NoFile
          /\ text = read_text(stored)
          /\ exit_code' = 0
          /\ pc' = "exited"
          /\ UNCHANGED <<fault, printed>>
    /\ UNCHANGED <<dir, stored, check_only, next_file, methods, text,
                   stored_at_start, generated>>

\* lines 139-140
Generate ==
    /\ pc = "main"
    /\ ~check_only
    /\ stored' = write_text(text)
    /\ generated' = TRUE
    /\ exit_code' = 0
    /\ pc' = "exited"
    /\ UNCHANGED <<dir, check_only, next_file, methods, text, fault,
                   printed, stored_at_start>>

Next ==
    \/ \E flag \in BOOLEAN : Start(flag)
    \/ ParseFile
    \/ ParseFault
    \/ Render
    \/ CheckOnly
    \/ Generate

Spec == Init /\ [][Next]_vars

SpecFile == InitFile /\ [][Next]_vars

(* ===================== the statements of the claims ==================== *)
(* The definitions below restate the claims in their own terms; they do    *)
(* not use the operators that model the parser or the renderer.            *)

\* the short name of a class written with '.' or '/' between its parts
ShortName(cls) ==
    LET seps == {i \in 1..Len(cls) : cls[i] \in {".", "/"}}
        last == IF seps = {} THEN 0 ELSE CHOOSE i \in seps : \A j \in seps : j <= i
    IN  SubSeq(cls, last + 1, Len(cls))

\* the full dotted class name
Dotted(cls) == [i \in 1..Len(cls) |-> IF cls[i] = "/" THEN "." ELSE cls[i]]

StaticNames(t) == {f.name : f \in {g \in t.funcs : g.static = TRUE}}

IsOverloaded(d) == d.macro[1] = "OVERLOADED_"

\* the native symbol a declaration binds: ClassName_method, or
\* ClassName_identifier for the overloaded form
Symbol(t, d) ==
    ShortName(t.markers[1]) \o <<"_">> \o (IF IsOverloaded(d) THEN d.ident ELSE d.method)

\* TAG("<dotted.class.method>", "<namespace>::<symbol>")
RecordLine(cls, method, symbol) ==
    <<"ART_JNI_METHOD(\"">> \o Dotted(cls) \o <<".">> \o method
        \o <<"\", \"", "art::">> \o symbol \o <<"\")">>

ExpectedLine(t, d) == RecordLine(t.markers[1], d.method, Symbol(t, d))

\* the lines of a text
RECURSIVE LinesOf(_)
LinesOf(s) ==
    LET nl == {i \in 1..Len(s) : s[i] = "\n"}
    IN  IF nl = {} THEN <<s>>
        ELSE LET i == CHOOSE k \in nl : \A j \in nl : k <= j
             IN  <<SubSeq(s, 1, i - 1)>> \o LinesOf(SubSeq(s, i + 1, Len(s)))

HeaderLines == << <<Header1>>, <<Header2>> >>

\* the macro names with a signature argument
PlainMacros ==
    { <<"NATIVE_METHOD">>, <<"FAST_", "NATIVE_METHOD">>,
      <<"CRITICAL_", "NATIVE_METHOD">> }

OverloadedMacros == { <<"OVERLOADED_">> \o m : m \in PlainMacros }

\* the auto-signature macros as jni_macros.h spells them
AutosigMacros == { m \o <<"_AUTOSIG">> : m \in PlainMacros }

JniMacros == PlainMacros \cup OverloadedMacros \cup AutosigMacros

\* the declaration forms in the order in which the parser looks for them
Forms ==
    << <<"NATIVE_METHOD">>, <<"NATIVE_METHOD", "AUTOSIG">>,
       <<"FAST_", "NATIVE_METHOD">>, <<"FAST_", "NATIVE_METHOD", "AUTOSIG">>,
       <<"CRITICAL_", "NATIVE_METHOD">>, <<"CRITICAL_", "NATIVE_METHOD", "AUTOSIG">>,
       <<"OVERLOADED_", "NATIVE_METHOD">>,
       <<"OVERLOADED_", "FAST_", "NATIVE_METHOD">>,
       <<"OVERLOADED_", "CRITICAL_", "NATIVE_METHOD">> >>

Recognised(d) == \E k \in 1..Len(Forms) : Forms[k] = d.macro

FormRank(d) == CHOOSE k \in 1..Len(Forms) : Forms[k] = d.macro

\* the run has gone through every file
Extracted == pc \in {"main", "exited"} /\ next_file = Len(dir) + 1

\* the one file of the directory
TheFile == dir[1]

OneMarkedFile == Len(dir) = 1 /\ Len(TheFile.markers) = 1

(* ------------------------------- C1 ------------------------------------ *)
Unbacked(t) ==
    /\ t.markers # <<>>
    /\ \E i \in 1..Len(t.decls) :
          /\ Recognised(t.decls[i])
          /\ Symbol(t, t.decls[i]) \notin StaticNames(t)

\* C1: when a file of the directory has a registration marker and a record
\* whose native symbol is not the name of a static function of that file, a
\* run never gets past that file, never reaches the write or the comparison,
\* ends with a fault and exit status 1, and the stored output file is what it
\* was when the run started; this in generate mode and in verify mode.
C1_FaultBeforeAnyWrite ==
    \A i \in 1..Len(dir) :
        Unbacked(dir[i]) =>
            /\ next_file <= i
            /\ pc # "main"
            /\ stored = stored_at_start
            /\ pc = "exited" => (fault /\ exit_code = 1)

C1_Witness ==
    /\ Len(dir) = 2
    /\ Unbacked(dir[2])
    /\ pc = "exited" /\ fault /\ ~check_only
    /\ next_file = 2
    /\ methods # <<>>
    /\ stored # NoFile

(* ------------------------------- C2 ------------------------------------ *)
\* the text that a stored content is read as: "\r\n" and "\r" stand for "\n"
AsReadInTextMode(s) ==
    LET keep == {i \in 1..Len(s) : ~(i > 1 /\ s[i] = "\n" /\ s[i - 1] = "\r")}
        nth(k) == CHOOSE i \in keep : Cardinality({j \in keep : j < i}) = k - 1
    IN  [k \in 1..Cardinality(keep) |->
            IF s[nth(k)] = "\r" THEN "\n" ELSE s[nth(k)]]

\* C2 as stated: after an extraction without fault a verify run over an
\* existing stored file returns 0 exactly when the rendered text equals the
\* stored content character for character, and otherwise reports the mismatch
\* and exits with 1.
C2_VerifyExact ==
    (Extracted /\ pc = "exited" /\ check_only /\ stored # NoFile) =>
        /\ (exit_code = 0) <=> (text = stored)
        /\ exit_code # 0 => (exit_code = 1 /\ printed)

\* C2 amended: after an extraction without fault a verify run returns 0
\* exactly when the stored file exists and the rendered text equals its
\* content as read in text mode, "\r\n" and "\r" read as "\n"; when the file
\* exists and the texts differ it reports the mismatch and exits with 1 without
\* a fault; when there is no stored file the run ends with a fault, status 1.
C2_VerifyTextMode ==
    (Extracted /\ pc = "exited" /\ check_only) =>
        /\ (exit_code = 0) <=> (stored # NoFile /\ text = AsReadInTextMode(stored))
        /\ (stored # NoFile /\ exit_code # 0) => (exit_code = 1 /\ printed /\ ~fault)
        /\ stored = NoFile => (fault /\ exit_code = 1 /\ ~printed)

C2_Witness ==
    /\ Extracted /\ pc = "exited" /\ check_only
    /\ exit_code = 0
    /\ text # stored
    /\ \E i \in 1..Len(stored) : stored[i] = "\r"

(* ------------------------------- C3 ------------------------------------ *)
\* C3: a file without registration marker is passed without fault and adds no
\* record, whatever declarations and functions it holds.
C3_NoMarkerNoRecords ==
    (Len(dir) = 1 /\ TheFile.markers = <<>> /\ pc \in {"main", "exited"}) =>
        (next_file = 2 /\ methods = <<>>)

C3_Witness ==
    /\ Len(dir) = 1 /\ TheFile.markers = <<>> /\ pc = "main"
    /\ next_file = 2 /\ methods = <<>>
    /\ TheFile.funcs = {}
    /\ \E i \in 1..Len(TheFile.decls) : TheFile.decls[i].cls = G
    /\ \E i \in 1..Len(TheFile.decls) : IsOverloaded(TheFile.decls[i])

(* ------------------------------- C4 ------------------------------------ *)
ValidDeclaration(t, d) ==
    /\ d.macro \in JniMacros
    /\ d.cls = ShortName(t.markers[1])
    /\ Symbol(t, d) \in StaticNames(t)

\* C4: a file with one registration marker whose N declarations are all valid
\* (a macro of jni_macros.h, bound to the short name of the registered class,
\* backed by a static function) yields exactly N records.
C4_OneRecordPerDeclaration ==
    ( /\ OneMarkedFile
      /\ \A i \in 1..Len(TheFile.decls) : ValidDeclaration(TheFile, TheFile.decls[i])
      /\ pc \in {"main", "exited"} ) =>
        (next_file = 2 /\ Len(methods) = Len(TheFile.decls))

RecognisedDecls(t) == SelectSeq(t.decls, Recognised)

\* the record lines of a file, in the order of its declarations in the text
LinesInTextOrder(t) ==
    IF t.markers = <<>> THEN <<>>
    ELSE [j \in 1..Len(RecognisedDecls(t)) |-> ExpectedLine(t, RecognisedDecls(t)[j])]

\* the record lines of a file, by declaration form first (in the order of
\* Forms) and by position in the text within one form
LinesInFormOrder(t) ==
    IF t.markers = <<>> THEN <<>>
    ELSE LET ds == RecognisedDecls(t)
             n  == Len(ds)
             before(i, j) ==
                 \/ FormRank(ds[i]) < FormRank(ds[j])
                 \/ FormRank(ds[i]) = FormRank(ds[j]) /\ i < j
             order == CHOOSE f \in [1..n -> 1..n] :
                          \A i, j \in 1..n : i < j => before(f[i], f[j])
         IN  [j \in 1..n |-> ExpectedLine(t, ds[order[j]])]

\* C6 as stated: the record lines follow the files in the order of the
\* iteration and, within a file, the declarations in the order of the text.
C6_TextOrder ==
    Extracted =>
        LinesOf(text) =
            HeaderLines \o Flatten([i \in 1..Len(dir) |-> LinesInTextOrder(dir[i])])

\* C6 amended: the record lines follow the files in the order of the
\* iteration, the lines of one file are contiguous, and within a file they are
\* grouped by declaration form (the plain and auto-signature forms of
\* NATIVE_METHOD, FAST_NATIVE_METHOD, CRITICAL_NATIVE_METHOD in this order, then
\* the overloaded forms in the same order), in the order of the text within
\* one form.
C6_FormOrder ==
    Extracted =>
        LinesOf(text) =
            HeaderLines \o Flatten([i \in 1..Len(dir) |-> LinesInFormOrder(dir[i])])

C6_Witness ==
    /\ Extracted
    /\ Len(dir) = 2
    /\ Len(LinesInFormOrder(dir[1])) = 3
    /\ Len(LinesInFormOrder(dir[2])) = 1
    /\ LinesInFormOrder(dir[1]) # LinesInTextOrder(dir[1])
    /\ Len(LinesOf(text)) = 6

(* ------------------------------- C7 ------------------------------------ *)
\* C7: when a file holds the registration marker more than once, a run never
\* gets past that file, ends with a fault and exit status 1, and writes
\* nothing: the stored output file is what it was when the run started.
C7_DuplicateMarkerFault ==
    \A i \in 1..Len(dir) :
        Len(dir[i].markers) > 1 =>
            /\ next_file <= i
            /\ pc \notin {"main"}
            /\ pc = "exited" => (fault /\ exit_code = 1 /\ text = <<>>)
            /\ stored = stored_at_start

C7_Witness ==
    /\ Len(dir) = 2
    /\ Len(dir[1].markers) = 1
    /\ Len(dir[2].markers) > 1
    /\ methods # <<>>
    /\ next_file = 2
    /\ pc = "exited" /\ fault /\ exit_code = 1 /\ ~check_only

(* ------------------------------- C8 ------------------------------------ *)
ForeignDeclaration(t, d) ==
    /\ d.macro \in PlainMacros \cup OverloadedMacros
    /\ d.cls # ShortName(t.markers[1])

OverloadedDecl(d) == d.macro \in OverloadedMacros

\* C9: when a file with one registration marker holds a declaration of the
\* overloaded form and the run gets past the file, the static functions of the
\* file include ShortName_identifier and the records include one with the
\* declared method name as Java name and ShortName_identifier as native name.
C9_OverloadUsesIdentifier ==
    (OneMarkedFile /\ pc \in {"main", "exited"} /\ next_file = 2) =>
        \A i \in 1..Len(TheFile.decls) :
            OverloadedDecl(TheFile.decls[i]) =>
                /\ ShortName(TheFile.markers[1]) \o <<"_">> \o TheFile.decls[i].ident
                      \in StaticNames(TheFile)
                /\ \E k \in 1..Len(methods) :
                      /\ methods[k].java_method_name = TheFile.decls[i].method
                      /\ methods[k].native_method_name =
                            ShortName(TheFile.markers[1]) \o <<"_">> \o TheFile.decls[i].ident

C9_Witness ==
    /\ OneMarkedFile /\ pc = "main" /\ next_file = 2
    /\ Len(TheFile.decls) = 1
    /\ OverloadedDecl(TheFile.decls[1])
    /\ TheFile.decls[1].method # TheFile.decls[1].ident
    /\ ShortName(TheFile.markers[1]) \o <<"_">> \o TheFile.decls[1].method
          \notin StaticNames(TheFile)
    /\ Len(methods) = 1

(* ------------------------------- C10 ----------------------------------- *)
\* C10: after a generate run that succeeds the stored file is the rendered
\* text of the collected records; once a generate run has succeeded, a verify
\* run over the same files succeeds; and a verify run leaves the stored file
\* as it was when the run started.
C10_RoundTrip ==
    /\ (pc = "exited" /\ ~check_only /\ ~fault) =>
          (exit_code = 0 /\ LinesOf(stored) =
              HeaderLines \o [k \in 1..Len(methods) |->
                  RecordLine(methods[k].class_name, methods[k].java_method_name,
                             methods[k].native_method_name)])
    /\ (generated /\ pc = "exited" /\ check_only) => (exit_code = 0 /\ ~fault)
    /\ check_only => stored = stored_at_start

C10_Witness ==
    /\ generated /\ pc = "exited" /\ check_only /\ exit_code = 0
    /\ Len(methods) > 1
    /\ stored_at_start = stored

====
